---- MODULE Spec2Model ----
(***************************************************************************)
(* MindexDB (src/mindexdb.js): a Redis-like wrapper over IndexedDB with    *)
(* three value stores (keyValue, hash, list).  Every public operation but  *)
(* del runs in one IndexedDB transaction on one object store, so it is one *)
(* atomic step; del awaits three transactions in turn.  expire writes an   *)
(* Expiry Record and hands the key to a worker whose timer makes the main  *)
(* thread delete the key and then the record.                              *)
(***************************************************************************)
EXTENDS Integers, Sequences, FiniteSets, TLC

VARIABLES keyValue, hash, list, call, ret,
          expiry, now, timers, handlers, events, callerDone, transactions

\* the expiry store, the clock, the worker's timers, the onmessage handlers
\* in flight, the delete events raised so far, and whether the caller is done
scheduler == <<expiry, now, timers, handlers, events, callerDone>>

vars == <<keyValue, hash, list, call, ret, scheduler, transactions>>

(* ------------------------------ bounds --------------------------------- *)

\* longest list the model lets a push build
MaxLen == 3

\* most values handed to one lpush/rpush call
MaxPush == 2

\* latest clock reading, in steps of TickMs
MaxTime == 2

\* most expire calls of one run
MaxExpire == 2

\* most calls in flight at once
MaxCalls == 2

(* ------------------------------ inputs --------------------------------- *)

Keys == {"k1", "k2"}

Values == {"a", "b"}

\* field names: an ordinary one, one that Object.prototype also defines as
\* a data property, and the accessor property of Object.prototype
Fields == {"f", "toString", "__proto__"}

OneValue == {"a"}

\* the key the list-only specification works on
ListKeys == {"k1"}

\* the key the expiry specification works on
ExpiryKeys == {"k1"}

\* the seconds handed to expire: none, one, and the first whole number of
\* seconds whose milliseconds exceed a 32-bit long (about 24.9 days)
Seconds == {0, 1, 2147484}

SeqsUpTo(S, n) == UNION {[1..m -> S] : m \in 0..n}

StartRange == (0 - (MaxLen + 1))..(MaxLen + 1)

StopRange == (0 - (2 * MaxLen + 2))..(MaxLen + 1)

(* ------------------------- JavaScript values --------------------------- *)

Undefined == "undefined"

Null == "null"

\* what reading an inherited property of a plain object yields
ObjectPrototype == "Object.prototype"

ToStringFunction == "function toString"

\* names every plain object inherits from Object.prototype
InheritedProperties == {"toString", "__proto__"}

\* key in hashObj
hasProperty(hashObj, key) ==
    key \in DOMAIN hashObj \/ key \in InheritedProperties

\* hashObj[key]
getProperty(hashObj, key) ==
    IF key \in DOMAIN hashObj THEN hashObj[key]
    ELSE IF key = "__proto__" THEN ObjectPrototype
    ELSE IF key = "toString" THEN ToStringFunction
    ELSE Undefined

\* hashObj[key] = value.  Assigning to "__proto__" runs the setter of
\* Object.prototype: it creates no own property, and the prototype it may
\* install is not kept by the structured clone that store.put takes.
setProperty(hashObj, key, value) ==
    IF key = "__proto__" THEN hashObj
    ELSE [k \in DOMAIN hashObj \cup {key} |->
             IF k = key THEN value ELSE hashObj[k]]

\* the empty object literal {}
EmptyObject == [k \in {} |-> Undefined]

(* --------------------------- object stores ----------------------------- *)

\* store.add(value, key) in place of put: an existing record is kept
putKeepsOld(store, value, key) ==
    [k \in DOMAIN store \cup {key} |->
        IF k \in DOMAIN store THEN store[k] ELSE value]

\* store.put(value, key)
put(store, value, key) ==
    [k \in DOMAIN store \cup {key} |-> IF k = key THEN value ELSE store[k]]

\* store.delete(key)
delete(store, key) ==
    [k \in DOMAIN store \ {key} |-> store[k]]

EmptyStore == [k \in {} |-> Undefined]

(* ------------------------------ arrays --------------------------------- *)

Min(a, b) == IF a < b THEN a ELSE b

Max(a, b) == IF a > b THEN a ELSE b

\* the values unshifted one at a time: the block ends up reversed
unshiftEach(l, values) ==
    [i \in 1..Len(values) |-> values[Len(values) + 1 - i]] \o l

\* list.unshift(...values)
unshift(l, values) == values \o l

\* the values pushed at the head
pushAtHead(l, values) == values \o l

\* list.push(...values)
push(l, values) == l \o values

\* the last element dropped where the first is returned
shiftDropsLast(l) == SubSeq(l, 1, Len(l) - 1)

\* list.shift(): the array that is left
shift(l) == Tail(l)

\* list.pop(): the array that is left
pop(l) == SubSeq(l, 1, Len(l) - 1)

\* Array.prototype.slice(start, end): a negative bound counts from the end,
\* both bounds clamp to 0..length
slice(l, start, end) ==
    LET from == IF start < 0 THEN Max(Len(l) + start, 0) ELSE Min(start, Len(l))
        to   == IF end < 0 THEN Max(Len(l) + end, 0) ELSE Min(end, Len(l))
    IN  SubSeq(l, from + 1, to)

\* the + 1 left out for a negative stop
adjustedStopNegativeExclusive(l, stop) ==
    IF stop < 0 THEN Len(l) + stop ELSE stop + 1

\* the + 1 left out for a stop that is not negative
adjustedStopExclusive(l, stop) ==
    IF stop < 0 THEN Len(l) + stop + 1 ELSE stop

\* const adjustedStop = stop < 0 ? list.length + stop + 1 : stop + 1
adjustedStop(l, stop) ==
    IF stop < 0 THEN Len(l) + stop + 1 ELSE stop + 1

(* ------------------------- resolved promises --------------------------- *)

\* the call that resolved last: its arguments and the value it resolved
\* with (result for a scalar, length for a number, items for an array)
Resolved(op, key, field, values, start, stop, result, length, items) ==
    [op |-> op, key |-> key, field |-> field, values |-> values,
     start |-> start, stop |-> stop,
     result |-> result, length |-> length, items |-> items]

Idle == [op |-> "idle", key |-> "", pc |-> ""]

Init ==
    /\ keyValue = EmptyStore
    /\ hash = EmptyStore
    /\ list = EmptyStore
    /\ call = Idle
    /\ ret = Resolved("none", "", "", <<>>, 0, 0, Undefined, 0, <<>>)
    /\ expiry = {}
    /\ now = 0
    /\ timers = {}
    /\ handlers = {}
    /\ events = <<>>
    /\ callerDone = FALSE
    /\ transactions = <<>>

(* ---------------------------- key-value -------------------------------- *)

\* a set that clears the TTL of the key, as SET does in Redis
setClearsExpiry(key, value) ==
    /\ keyValue' = put(keyValue, value, key)
    /\ expiry' = {r \in expiry : r.key # key}
    /\ ret' = Resolved("set", key, "", <<value>>, 0, 0, Undefined, 0, <<>>)
    /\ UNCHANGED <<hash, list, call, now, timers, handlers, events,
                   callerDone, transactions>>

\* set(key, value): store.put(value, key) on the keyValue store
set(key, value) ==
    /\ keyValue' = put(keyValue, value, key)
    /\ ret' = Resolved("set", key, "", <<value>>, 0, 0, Undefined, 0, <<>>)
    /\ UNCHANGED <<hash, list, call, scheduler, transactions>>

\* request.result of store.get(key) on the keyValue store
getResult(store, key) ==
    IF key \in DOMAIN store THEN store[key] ELSE Undefined

get(key) ==
    /\ ret' = Resolved("get", key, "", <<>>, 0, 0,
                       getResult(keyValue, key), 0, <<>>)
    /\ UNCHANGED <<keyValue, hash, list, call, scheduler,
                     transactions>>

(* ------------------------------ hashes --------------------------------- *)

\* const hashObj = request.result || {}; hashObj[key] = value
hsetObject(store, h, key, value) ==
    setProperty(IF h \in DOMAIN store THEN store[h] ELSE EmptyObject,
                key, value)

hset(h, key, value) ==
    /\ hash' = put(hash, hsetObject(hash, h, key, value), h)
    /\ ret' = Resolved("hset", h, key, <<value>>, 0, 0, Undefined, 0, <<>>)
    /\ UNCHANGED <<keyValue, list, call, scheduler, transactions>>

\* what hget resolves with
hgetResult(store, h, key) ==
    IF h \in DOMAIN store /\ hasProperty(store[h], key)
    THEN getProperty(store[h], key)
    ELSE Null

hget(h, key) ==
    /\ ret' = Resolved("hget", h, key, <<>>, 0, 0,
                       hgetResult(hash, h, key), 0, <<>>)
    /\ UNCHANGED <<keyValue, hash, list, call, scheduler,
                     transactions>>

(* ------------------------------- lists --------------------------------- *)

\* let list = getRequest.result; if (!Array.isArray(list)) list = []
listOrEmpty(store, key) ==
    IF key \in DOMAIN store THEN store[key] ELSE <<>>

lpush(key, values) ==
    LET l == unshift(listOrEmpty(list, key), values)
    IN  /\ list' = put(list, l, key)
        /\ ret' = Resolved("lpush", key, "", values, 0, 0,
                           "number", Len(l), <<>>)
        /\ UNCHANGED <<keyValue, hash, call, scheduler, transactions>>

rpush(key, values) ==
    LET l == push(listOrEmpty(list, key), values)
    IN  /\ list' = put(list, l, key)
        /\ ret' = Resolved("rpush", key, "", values, 0, 0,
                           "number", Len(l), <<>>)
        /\ UNCHANGED <<keyValue, hash, call, scheduler, transactions>>

\* if (!Array.isArray(list) || list.length === 0) { resolve(null); return; }
nothingToPop(store, key) ==
    key \notin DOMAIN store \/ Len(store[key]) = 0

\* the list written back also when there is nothing to pop
lpopAlwaysWrites(key) ==
    /\ list' = put(list, IF nothingToPop(list, key) THEN <<>>
                         ELSE shift(list[key]), key)
    /\ ret' = Resolved("lpop", key, "", <<>>, 0, 0,
                       IF nothingToPop(list, key) THEN Null
                       ELSE Head(list[key]), 0, <<>>)
    /\ UNCHANGED <<keyValue, hash, call, scheduler, transactions>>

lpop(key) ==
    IF nothingToPop(list, key)
    THEN /\ ret' = Resolved("lpop", key, "", <<>>, 0, 0, Null, 0, <<>>)
         /\ UNCHANGED <<keyValue, hash, list, call, scheduler,
                     transactions>>
    ELSE /\ list' = put(list, shift(list[key]), key)
         /\ ret' = Resolved("lpop", key, "", <<>>, 0, 0,
                            Head(list[key]), 0, <<>>)
         /\ UNCHANGED <<keyValue, hash, call, scheduler, transactions>>

rpop(key) ==
    IF nothingToPop(list, key)
    THEN /\ ret' = Resolved("rpop", key, "", <<>>, 0, 0, Null, 0, <<>>)
         /\ UNCHANGED <<keyValue, hash, list, call, scheduler,
                     transactions>>
    ELSE /\ list' = put(list, pop(list[key]), key)
         /\ ret' = Resolved("rpop", key, "", <<>>, 0, 0,
                            list[key][Len(list[key])], 0, <<>>)
         /\ UNCHANGED <<keyValue, hash, call, scheduler, transactions>>

\* what lrange resolves with
lrangeResult(store, key, start, stop) ==
    IF key \notin DOMAIN store THEN <<>>
    ELSE slice(store[key], start, adjustedStop(store[key], stop))

lrange(key, start, stop) ==
    /\ ret' = Resolved("lrange", key, "", <<>>, start, stop,
                       "array", 0, lrangeResult(list, key, start, stop))
    /\ UNCHANGED <<keyValue, hash, list, call, scheduler,
                     transactions>>

(* -------------------------------- del ---------------------------------- *)

\* del(key) is called: its first transaction is opened
del(key) ==
    /\ call = Idle
    /\ call' = [op |-> "del", key |-> key, pc |-> "keyValue"]
    /\ UNCHANGED <<keyValue, hash, list, ret, scheduler, transactions>>

\* del rejecting where the keyValue store does not hold the key
delKeyValueRejectsAbsent ==
    /\ call.op = "del" /\ call.pc = "keyValue"
    /\ keyValue' = delete(keyValue, call.key)
    /\ call' = IF call.key \in DOMAIN keyValue
                  THEN [call EXCEPT !.pc = "hash"]
                  ELSE Idle
    /\ UNCHANGED <<hash, list, ret, scheduler, transactions>>

\* await this._performTransaction('keyValue', 'readwrite', store.delete(key))
delKeyValue ==
    /\ call.op = "del" /\ call.pc = "keyValue"
    /\ keyValue' = delete(keyValue, call.key)
    /\ call' = [call EXCEPT !.pc = "hash"]
    /\ UNCHANGED <<hash, list, ret, scheduler, transactions>>

\* the hash store left out of del
delHashSkipped ==
    /\ call.op = "del" /\ call.pc = "hash"
    /\ call' = [call EXCEPT !.pc = "list"]
    /\ UNCHANGED <<keyValue, hash, list, ret, scheduler, transactions>>

\* await this._performTransaction('hash', 'readwrite', store.delete(key))
delHash ==
    /\ call.op = "del" /\ call.pc = "hash"
    /\ hash' = delete(hash, call.key)
    /\ call' = [call EXCEPT !.pc = "list"]
    /\ UNCHANGED <<keyValue, list, ret, scheduler, transactions>>

\* del removing the Expiry Record as well
delListRemovesExpiry ==
    /\ call.op = "del" /\ call.pc = "list"
    /\ list' = delete(list, call.key)
    /\ expiry' = {r \in expiry : r.key # call.key}
    /\ call' = Idle
    /\ ret' = Resolved("del", call.key, "", <<>>, 0, 0, Undefined, 0, <<>>)
    /\ UNCHANGED <<keyValue, hash, now, timers, handlers, events, callerDone,
                   transactions>>

\* await this._performTransaction('list', 'readwrite', store.delete(key));
\* del's promise resolves
delList ==
    /\ call.op = "del" /\ call.pc = "list"
    /\ list' = delete(list, call.key)
    /\ call' = Idle
    /\ ret' = Resolved("del", call.key, "", <<>>, 0, 0, Undefined, 0, <<>>)
    /\ UNCHANGED <<keyValue, hash, scheduler, transactions>>

(* ------------------------------- time ---------------------------------- *)

\* the clock is read in steps of half a second: every time of the model is
\* a number of such steps
TickMs == 1000 \div 2

\* seconds * 1000
MsPerSecond == 1000

TicksPerSecond == MsPerSecond \div TickMs

\* const expireAt = Date.now() + seconds * 1000
expireAtOf(t, seconds) == t + seconds * TicksPerSecond

\* Math.ceil(ms / 1000) for ms = d steps of the clock
ceilSeconds(d) == (d + TicksPerSecond - 1) \div TicksPerSecond

\* the largest delay, in milliseconds, that setTimeout's long argument holds
MaxLong == 2147483647

\* setTimeout(callback, timeout): the delay it waits.  The argument is
\* converted to a 32-bit long, so a timeout above MaxLong ms (and below 2^32
\* ms, as all of the model are) turns negative; a negative delay is 0.
setTimeoutDelay(timeout) ==
    IF timeout < 0 THEN 0
    ELSE IF timeout <= MaxLong \div TickMs THEN timeout
    ELSE 0

(* --------------------------- expiry store ------------------------------ *)

\* a put that adds the record beside the one the key already has
putRecordAdds(store, record) == store \cup {record}

\* store.put({ key, expireAt }) on a store with keyPath 'key'
putRecord(store, record) ==
    {r \in store : r.key # record.key} \cup {record}

\* a delete that spares a record whose expireAt is still to come
deleteRecordDue(store, key) ==
    {r \in store : r.key # key \/ r.expireAt > now}

\* store.delete(key) on the expiry store
deleteRecord(store, key) == {r \in store : r.key # key}

\* the Expiry Records of key
recordsOf(store, key) == {r \in store : r.key = key}

(* -------------------------------- ttl ---------------------------------- *)

\* JavaScript numbers: NaN is what arithmetic on undefined gives
Num(n) == [nan |-> FALSE, n |-> n]

NaN == [nan |-> TRUE, n |-> 0]

\* resolved values by type
NumberValue(n) == [type |-> "number", n |-> n]

UndefinedValue == [type |-> "undefined", n |-> 0]

\* store.get(key) on the expiry store: the IDBRequest it returns
expiryGetRequest(store, key) ==
    [kind |-> "IDBRequest", records |-> recordsOf(store, key)]

\* await x for an x that is no thenable: x itself.  An IDBRequest has no
\* then method, so awaiting it gives the request, not its result.
awaitValue(x) == x

\* !expiryData: an object is truthy
isFalsy(x) == x.kind = "undefined"

\* expiryData.expireAt: an IDBRequest has no such property
expireAtProperty(x) ==
    IF x.kind = "record" THEN Num(x.expireAt) ELSE NaN

\* _checkKeyExists(key): store.count(key) > 0 in one of the value stores
checkKeyExists(key) ==
    key \in DOMAIN keyValue \/ key \in DOMAIN hash \/ key \in DOMAIN list

\* the value the async callback that ttl hands to _performTransaction
\* returns (the value its promise is fulfilled with)
ttlOperation(store, key, t) ==
    LET expiryData == awaitValue(expiryGetRequest(store, key))
    IN  IF isFalsy(expiryData)
        THEN IF checkKeyExists(key) THEN NumberValue(-1) ELSE NumberValue(-2)
        ELSE LET remainingTime ==
                     IF expireAtProperty(expiryData).nan THEN NaN
                     ELSE Num(ceilSeconds(expireAtProperty(expiryData).n - t))
             IN  IF ~remainingTime.nan /\ remainingTime.n > 0
                 THEN NumberValue(remainingTime.n)
                 ELSE NumberValue(-2)

\* resolve(request ? request.result : undefined) for the promise an async
\* operation returns: a promise is truthy and has no result property
promiseResult(value) == UndefinedValue

ttl(key) ==
    LET resolved == promiseResult(ttlOperation(expiry, key, now))
    IN  /\ ret' = Resolved("ttl", key, "", <<>>, 0, 0,
                           IF resolved.type = "number" THEN "number"
                           ELSE Undefined,
                           resolved.n, <<>>)
        /\ UNCHANGED <<keyValue, hash, list, call, scheduler,
                     transactions>>

(* ------------------------------ expire --------------------------------- *)

\* expire(key, seconds) is called: expireAt is computed and the transaction
\* of _setExpiry is opened
expire(key, seconds) ==
    /\ call = Idle
    /\ call' = [op |-> "expire", key |-> key, pc |-> "expiry",
                seconds |-> seconds, expireAt |-> expireAtOf(now, seconds)]
    /\ UNCHANGED <<keyValue, hash, list, ret, scheduler, transactions>>

\* a worker that clears the pending timers of the key before it arms one
workerOnMessageCancels(pending, id, key, expireAt, t) ==
    {p \in pending : p.key # key}
       \cup {[id |-> id, key |-> key, expireAt |-> expireAt,
               due |-> t + setTimeoutDelay(expireAt - t)]}

\* self.onmessage of the worker: timeout = expireAt - now, setTimeout
workerOnMessage(pending, id, key, expireAt, t) ==
    pending \cup {[id |-> id, key |-> key, expireAt |-> expireAt,
                   due |-> t + setTimeoutDelay(expireAt - t)]}

\* the transaction of _setExpiry commits, expire goes on to
\* this.worker.postMessage({ key, expireAt }) and resolves
expireSetExpiry ==
    /\ call.op = "expire" /\ call.pc = "expiry"
    /\ expiry' = putRecord(expiry, [key |-> call.key, expireAt |-> call.expireAt])
    /\ timers' = workerOnMessage(timers, Len(events) + 1, call.key,
                                 call.expireAt, now)
    /\ events' = Append(events, 0)
    /\ call' = Idle
    /\ ret' = Resolved("expire", call.key, "", <<>>, call.seconds,
                       call.expireAt, Undefined, 0, <<>>)
    /\ UNCHANGED <<keyValue, hash, list, now, handlers, callerDone,
                   transactions>>

(* ------------------------- concurrent calls ---------------------------- *)

\* the object store an operation opens its readwrite transaction on
storeOf(op) == IF op = "hset" THEN "hash" ELSE "list"

\* the record the store holds under the key of transaction tx, as the get
\* request of tx reads it
readBy(tx) ==
    [tx EXCEPT !.found = IF storeOf(tx.op) = "hash"
                            THEN tx.key \in DOMAIN hash
                            ELSE tx.key \in DOMAIN list,
               !.hashObj = IF storeOf(tx.op) = "hash" /\ tx.key \in DOMAIN hash
                              THEN hash[tx.key]
                              ELSE EmptyObject,
               !.list = IF storeOf(tx.op) = "list"
                           THEN listOrEmpty(list, tx.key)
                           ELSE <<>>]

\* hset, lpush, rpush, lpop or rpop is called while earlier calls are in
\* flight: this.db.transaction(store, 'readwrite') and store.get(key)
transaction(op, key, field, values) ==
    /\ transactions' =
          Append(transactions,
                 [op |-> op, key |-> key, field |-> field, values |-> values,
                  pc |-> "get", behind |-> Len(transactions),
                  found |-> FALSE, hashObj |-> EmptyObject, list |-> <<>>])
    /\ UNCHANGED <<keyValue, hash, list, call, ret, scheduler>>

\* transactions that run their requests as soon as they are created
mayStartAtOnce(i) == TRUE

\* IndexedDB runs the readwrite transactions on one store one after the
\* other in the order they were created: transaction i runs its requests
\* when no transaction created before it on its store is live
mayStart(i) ==
    \A j \in 1..(i - 1) :
       storeOf(transactions[j].op) # storeOf(transactions[i].op)

\* the transactions but the i-th, which has completed
completed(i) ==
    SubSeq(transactions, 1, i - 1)
       \o SubSeq(transactions, i + 1, Len(transactions))

\* the pop finds nothing: resolve(null), and no put is requested
popsNothing(tx) ==
    tx.op \in {"lpop", "rpop"} /\ nothingToPop(list, tx.key)

\* onsuccess of the get request of transaction i: the record is read, and
\* changed in memory, and the put is requested
getOnsuccess(i) ==
    /\ i \in 1..Len(transactions)
    /\ transactions[i].pc = "get"
    /\ mayStart(i)
    /\ IF popsNothing(transactions[i])
       THEN /\ transactions' = completed(i)
            /\ ret' = Resolved(transactions[i].op, transactions[i].key, "",
                               <<>>, 0, 0, Null, 0, <<>>)
       ELSE /\ transactions' =
                  [transactions EXCEPT
                      ![i] = [readBy(transactions[i]) EXCEPT !.pc = "put"]]
            /\ ret' = ret
    /\ UNCHANGED <<keyValue, hash, list, call, scheduler>>

\* the array that the list operation of tx puts back
listWritten(tx) ==
    IF tx.op = "lpush" THEN unshift(tx.list, tx.values)
    ELSE IF tx.op = "rpush" THEN push(tx.list, tx.values)
    ELSE IF tx.op = "lpop" THEN shift(tx.list)
    ELSE pop(tx.list)

\* what the list operation of tx resolves with
listResult(tx) ==
    IF tx.op \in {"lpush", "rpush"} THEN "number"
    ELSE IF tx.op = "lpop" THEN Head(tx.list)
    ELSE tx.list[Len(tx.list)]

\* onsuccess of the put request of transaction i and its commit: the
\* record computed from what the get read is written, the promise resolves
putOnsuccess(i) ==
    /\ i \in 1..Len(transactions)
    /\ transactions[i].pc = "put"
    /\ LET tx == transactions[i]
       IN  IF tx.op = "hset"
           THEN /\ hash' = put(hash, setProperty(tx.hashObj, tx.field,
                                                 tx.values[1]), tx.key)
                /\ list' = list
                /\ ret' = Resolved("hset", tx.key, tx.field, tx.values,
                                   0, 0, Undefined, 0, <<>>)
           ELSE /\ list' = put(list, listWritten(tx), tx.key)
                /\ hash' = hash
                /\ ret' = Resolved(tx.op, tx.key, "", tx.values, 0, 0,
                                   listResult(tx),
                                   IF tx.op \in {"lpush", "rpush"}
                                      THEN Len(listWritten(tx)) ELSE 0,
                                   <<>>)
    /\ transactions' = completed(i)
    /\ UNCHANGED <<keyValue, call, scheduler>>

(* ----------------------- failing transactions ------------------------- *)

\* what a rejected promise is settled with, in place of a value
Rejected == "rejected"

\* a request of the transaction fails: its error event reaches
\* transaction.onerror, which rejects the promise (_performTransaction), or
\* the request's own onerror rejects it (lpush, rpush, lpop, rpop)
setError(key, value) ==
    /\ ret' = Resolved("set", key, "", <<value>>, 0, 0, Rejected, 0, <<>>)
    /\ UNCHANGED <<keyValue, hash, list, call, scheduler, transactions>>

\* the transaction aborts with no request of it failing (the commit fails):
\* it gets an abort event, for which _performTransaction sets no handler,
\* so neither resolve nor reject is ever called
setAborts(key, value) ==
    /\ call' = [op |-> "set", key |-> key, pc |-> "pending"]
    /\ UNCHANGED <<keyValue, hash, list, ret, scheduler, transactions>>

\* getRequest.onerror or putRequest.onerror of rpush
rpushError(key, values) ==
    /\ ret' = Resolved("rpush", key, "", values, 0, 0, Rejected, 0, <<>>)
    /\ UNCHANGED <<keyValue, hash, list, call, scheduler, transactions>>

\* the transaction of rpush aborts at its commit: putRequest.onsuccess has
\* run by then and has resolved the promise with list.length
rpushAborts(key, values) ==
    /\ ret' = Resolved("rpush", key, "", values, 0, 0, "number",
                       Len(push(listOrEmpty(list, key), values)), <<>>)
    /\ UNCHANGED <<keyValue, hash, list, call, scheduler, transactions>>

\* the stores del runs a transaction on
delStores == {"keyValue", "hash", "list"}

\* a request of the transaction del is awaiting fails: the await throws
\* and del rejects
delError ==
    /\ call.op = "del" /\ call.pc \in delStores
    /\ call' = Idle
    /\ ret' = Resolved("del", call.key, "", <<>>, 0, 0, Rejected, 0, <<>>)
    /\ UNCHANGED <<keyValue, hash, list, scheduler, transactions>>

\* the transaction del is awaiting aborts at its commit
delAborts ==
    /\ call.op = "del" /\ call.pc \in delStores
    /\ call' = [call EXCEPT !.pc = "pending"]
    /\ UNCHANGED <<keyValue, hash, list, ret, scheduler, transactions>>

\* the put of _setExpiry fails: await this._setExpiry throws, expire
\* rejects before this.worker.postMessage
expireSetExpiryError ==
    /\ call.op = "expire" /\ call.pc = "expiry"
    /\ call' = Idle
    /\ ret' = Resolved("expire", call.key, "", <<>>, call.seconds,
                       call.expireAt, Rejected, 0, <<>>)
    /\ UNCHANGED <<keyValue, hash, list, scheduler, transactions>>

\* the transaction of _setExpiry aborts at its commit
expireSetExpiryAborts ==
    /\ call.op = "expire" /\ call.pc = "expiry"
    /\ call' = [call EXCEPT !.pc = "pending"]
    /\ UNCHANGED <<keyValue, hash, list, ret, scheduler, transactions>>

(* ------------------------- worker and handler -------------------------- *)

\* time passes
tick ==
    /\ now < MaxTime
    /\ now' = now + 1
    /\ UNCHANGED <<keyValue, hash, list, call, ret,
                   expiry, timers, handlers, events, callerDone, transactions>>

\* the timer of registration id runs: self.postMessage({ key, action:
\* 'delete' }), and worker.onmessage on the main thread calls this.del(key)
timerFires(id) ==
    \E t \in timers :
       /\ t.id = id
       /\ t.due <= now
       /\ timers' = timers \ {t}
       /\ events' = [events EXCEPT ![id] = @ + 1]
       /\ handlers' = handlers \cup {[id |-> id, key |-> t.key, pc |-> "keyValue"]}
       /\ UNCHANGED <<keyValue, hash, list, call, ret,
                      expiry, now, callerDone, transactions>>

\* the handler moves on from the await it is suspended at
handlerAt(h, pc) ==
    (handlers \ {h}) \cup {[h EXCEPT !.pc = pc]}

\* del as one transaction over the three value stores
onmessageDelAllStores(id) ==
    \E h \in handlers :
       /\ h.id = id /\ h.pc = "keyValue"
       /\ keyValue' = delete(keyValue, h.key)
       /\ hash' = delete(hash, h.key)
       /\ list' = delete(list, h.key)
       /\ handlers' = handlerAt(h, "expiry")
       /\ UNCHANGED <<call, ret, expiry, now, timers, events, callerDone,
                      transactions>>

\* await this.del(key): the keyValue transaction
onmessageDelKeyValue(id) ==
    \E h \in handlers :
       /\ h.id = id /\ h.pc = "keyValue"
       /\ keyValue' = delete(keyValue, h.key)
       /\ handlers' = handlerAt(h, "hash")
       /\ UNCHANGED <<hash, list, call, ret,
                      expiry, now, timers, events, callerDone, transactions>>

\* await this.del(key): the hash transaction
onmessageDelHash(id) ==
    \E h \in handlers :
       /\ h.id = id /\ h.pc = "hash"
       /\ hash' = delete(hash, h.key)
       /\ handlers' = handlerAt(h, "list")
       /\ UNCHANGED <<keyValue, list, call, ret,
                      expiry, now, timers, events, callerDone, transactions>>

\* await this.del(key): the list transaction
onmessageDelList(id) ==
    \E h \in handlers :
       /\ h.id = id /\ h.pc = "list"
       /\ list' = delete(list, h.key)
       /\ handlers' = handlerAt(h, "expiry")
       /\ UNCHANGED <<keyValue, hash, call, ret,
                      expiry, now, timers, events, callerDone, transactions>>

\* the handler ends after del, the Expiry Record is left
onmessageKeepsExpiry(id) ==
    \E h \in handlers :
       /\ h.id = id /\ h.pc = "expiry"
       /\ handlers' = handlers \ {h}
       /\ UNCHANGED <<keyValue, hash, list, call, ret,
                      expiry, now, timers, events, callerDone, transactions>>

\* await this._removeExpiry(key)
onmessageRemoveExpiry(id) ==
    \E h \in handlers :
       /\ h.id = id /\ h.pc = "expiry"
       /\ expiry' = deleteRecord(expiry, h.key)
       /\ handlers' = handlers \ {h}
       /\ UNCHANGED <<keyValue, hash, list, call, ret,
                      now, timers, events, callerDone, transactions>>

\* the caller makes no further call
callerStops ==
    /\ call = Idle
    /\ ~callerDone
    /\ callerDone' = TRUE
    /\ UNCHANGED <<keyValue, hash, list, call, ret,
                   expiry, now, timers, handlers, events, transactions>>

(* --------------------------- specifications ---------------------------- *)

\* the caller awaits every call before it makes the next one
Awaited == call = Idle

\* room left in the list of key for these values
Fits(key, values) == Len(listOrEmpty(list, key)) + Len(values) <= MaxLen

\* the whole engine
Next ==
    \/ \E key \in Keys, value \in Values : Awaited /\ set(key, value)
    \/ \E key \in Keys : Awaited /\ get(key)
    \/ \E h \in Keys, value \in OneValue : Awaited /\ hset(h, "f", value)
    \/ \E h \in Keys, key \in Fields : Awaited /\ hget(h, key)
    \/ \E key \in Keys, values \in SeqsUpTo(OneValue, 1) :
          Awaited /\ Fits(key, values) /\ lpush(key, values)
    \/ \E key \in Keys, values \in SeqsUpTo(OneValue, 1) :
          Awaited /\ Fits(key, values) /\ rpush(key, values)
    \/ \E key \in Keys : Awaited /\ lpop(key)
    \/ \E key \in Keys : Awaited /\ rpop(key)
    \/ \E key \in Keys : Awaited /\ lrange(key, 0, -1)
    \/ \E key \in Keys : del(key)
    \/ delKeyValue
    \/ delHash
    \/ delList

Spec == Init /\ [][Next]_vars

\* the hash store alone, every field name
NextHash ==
    \/ \E h \in Keys, key \in Fields, value \in Values :
          Awaited /\ hset(h, key, value)
    \/ \E h \in Keys, key \in Fields : Awaited /\ hget(h, key)
    \/ \E key \in Keys : del(key)
    \/ delKeyValue
    \/ delHash
    \/ delList

SpecHash == Init /\ [][NextHash]_vars

\* the list store alone on one key, every push and every range
NextList ==
    \/ \E key \in ListKeys, values \in SeqsUpTo(Values, MaxPush) :
          Awaited /\ Fits(key, values) /\ lpush(key, values)
    \/ \E key \in ListKeys, values \in SeqsUpTo(Values, MaxPush) :
          Awaited /\ Fits(key, values) /\ rpush(key, values)
    \/ \E key \in ListKeys : Awaited /\ lpop(key)
    \/ \E key \in ListKeys : Awaited /\ rpop(key)
    \/ \E key \in ListKeys, start \in StartRange, stop \in StopRange :
          Awaited /\ lrange(key, start, stop)
    \/ \E key \in ListKeys : del(key)
    \/ delKeyValue
    \/ delHash
    \/ delList

SpecList == Init /\ [][NextList]_vars

\* the caller may make a call
MayCall == Awaited /\ ~callerDone

Ids == 1..MaxExpire

\* an expire call the model has room for: one more registration, and a
\* timer that comes due while the clock still runs
Schedulable(seconds) ==
    /\ Len(events) < MaxExpire
    /\ now + setTimeoutDelay(expireAtOf(now, seconds) - now) <= MaxTime

\* the engine with its expiry subsystem, on one key
NextExpiry ==
    \/ \E key \in ExpiryKeys : MayCall /\ set(key, "a")
    \/ \E key \in ExpiryKeys : MayCall /\ get(key)
    \/ \E key \in ExpiryKeys : MayCall /\ hset(key, "f", "a")
    \/ \E key \in ExpiryKeys :
          MayCall /\ key \notin DOMAIN list /\ rpush(key, <<"a">>)
    \/ \E key \in ExpiryKeys : MayCall /\ ttl(key)
    \/ \E key \in ExpiryKeys : MayCall /\ del(key)
    \/ \E key \in ExpiryKeys, seconds \in Seconds :
          MayCall /\ Schedulable(seconds) /\ expire(key, seconds)
    \/ delKeyValue
    \/ delHash
    \/ delList
    \/ expireSetExpiry
    \/ tick
    \/ \E id \in Ids : timerFires(id)
    \/ \E id \in Ids : onmessageDelKeyValue(id)
    \/ \E id \in Ids : onmessageDelHash(id)
    \/ \E id \in Ids : onmessageDelList(id)
    \/ \E id \in Ids : onmessageRemoveExpiry(id)
    \/ callerStops

SpecExpiry == Init /\ [][NextExpiry]_vars

\* the TTL handed to expire where no timer is to come due
LongSeconds == {1}

\* the writes to the three value stores on two keys, some of them under a
\* TTL that has not run out: the clock stands, so no timer is due
NextFrame ==
    \/ \E key \in Keys, value \in OneValue : Awaited /\ set(key, value)
    \/ \E h \in Keys, value \in OneValue : Awaited /\ hset(h, "f", value)
    \/ \E key \in Keys, values \in SeqsUpTo(OneValue, 1) :
          Awaited /\ Fits(key, values) /\ lpush(key, values)
    \/ \E key \in Keys, values \in SeqsUpTo(OneValue, 1) :
          Awaited /\ Fits(key, values) /\ rpush(key, values)
    \/ \E key \in Keys : Awaited /\ lpop(key)
    \/ \E key \in Keys : Awaited /\ rpop(key)
    \/ \E key \in Keys, seconds \in LongSeconds :
          Awaited /\ Len(events) < MaxExpire /\ expire(key, seconds)
    \/ expireSetExpiry

SpecFrame == Init /\ [][NextFrame]_vars

\* the engine on one key with transactions that may fail
NextFault ==
    \/ \E key \in ExpiryKeys : MayCall /\ set(key, "a")
    \/ \E key \in ExpiryKeys : MayCall /\ setError(key, "a")
    \/ \E key \in ExpiryKeys : MayCall /\ setAborts(key, "a")
    \/ \E key \in ExpiryKeys : MayCall /\ get(key)
    \/ \E key \in ExpiryKeys :
          MayCall /\ key \notin DOMAIN list /\ rpush(key, <<"a">>)
    \/ \E key \in ExpiryKeys : MayCall /\ rpushError(key, <<"a">>)
    \/ \E key \in ExpiryKeys : MayCall /\ rpushAborts(key, <<"a">>)
    \/ \E key \in ExpiryKeys : MayCall /\ del(key)
    \/ \E key \in ExpiryKeys, seconds \in Seconds :
          MayCall /\ Schedulable(seconds) /\ expire(key, seconds)
    \/ delKeyValue
    \/ delHash
    \/ delList
    \/ delError
    \/ delAborts
    \/ expireSetExpiry
    \/ expireSetExpiryError
    \/ expireSetExpiryAborts
    \/ tick
    \/ \E id \in Ids : timerFires(id)
    \/ \E id \in Ids : onmessageDelKeyValue(id)
    \/ \E id \in Ids : onmessageDelHash(id)
    \/ \E id \in Ids : onmessageDelList(id)
    \/ \E id \in Ids : onmessageRemoveExpiry(id)

SpecFault == Init /\ [][NextFault]_vars

\* the names two hset calls may set
ConcurrentFields == {"f", "toString"}

\* a caller that makes up to MaxCalls calls on one key without awaiting
NextConcurrent ==
    \/ \E h \in ListKeys, key \in ConcurrentFields, value \in OneValue :
          /\ Len(transactions) < MaxCalls
          /\ transaction("hset", h, key, <<value>>)
    \/ \E key \in ListKeys, op \in {"lpush", "rpush"},
          values \in SeqsUpTo(OneValue, 1) \ {<<>>} :
          /\ Len(transactions) < MaxCalls
          /\ Fits(key, values)
          /\ transaction(op, key, "", values)
    \/ \E key \in ListKeys, op \in {"lpop", "rpop"} :
          /\ Len(transactions) < MaxCalls
          /\ transaction(op, key, "", <<>>)
    \/ \E i \in 1..MaxCalls : getOnsuccess(i)
    \/ \E i \in 1..MaxCalls : putOnsuccess(i)

SpecConcurrent == Init /\ [][NextConcurrent]_vars

\* a step of a handler in flight
HandlerStep ==
    \E id \in Ids :
       \/ onmessageDelKeyValue(id)
       \/ onmessageDelHash(id)
       \/ onmessageDelList(id)
       \/ onmessageRemoveExpiry(id)

\* the clock runs, a due timer runs, and a handler goes on once its
\* transaction has committed
Fairness ==
    /\ WF_vars(tick)
    /\ WF_vars(\E id \in Ids : timerFires(id))
    /\ WF_vars(HandlerStep)

\* the same engine under a caller that writes and expires until it stops:
\* what the caller's reads and its del can reach, these calls reach too
NextExpiryLive ==
    \/ \E key \in ExpiryKeys : MayCall /\ set(key, "a")
    \/ \E key \in ExpiryKeys : MayCall /\ hset(key, "f", "a")
    \/ \E key \in ExpiryKeys :
          MayCall /\ key \notin DOMAIN list /\ rpush(key, <<"a">>)
    \/ \E key \in ExpiryKeys, seconds \in Seconds :
          MayCall /\ Schedulable(seconds) /\ expire(key, seconds)
    \/ expireSetExpiry
    \/ tick
    \/ \E id \in Ids : timerFires(id)
    \/ \E id \in Ids : onmessageDelKeyValue(id)
    \/ \E id \in Ids : onmessageDelHash(id)
    \/ \E id \in Ids : onmessageDelList(id)
    \/ \E id \in Ids : onmessageRemoveExpiry(id)
    \/ callerStops

SpecExpiryFair == Init /\ [][NextExpiryLive]_vars /\ Fairness

(* ------------------------------ claims --------------------------------- *)

\* C1: when the call that resolved last is set(k, v) and get(k) follows, get
\* resolves with v (so a later set(k, v2) makes it v2); and what get(k)
\* would resolve with changes only on a write to k's scalar record, a
\* set(k, _) or the keyValue step of del(k).
C1_SetThenGet ==
    [][\A key \in Keys :
          /\ (ret.op = "set" /\ ret.key = key /\ get(key))
                => ret'.result = ret.values[1]
          /\ getResult(keyValue', key) # getResult(keyValue, key)
                => \/ ret'.op = "set" /\ ret'.key = key
                   \/ call.op = "del" /\ call.key = key /\ call.pc = "keyValue"
      ]_vars

C1_Witness ==
    /\ ret.op = "get"
    /\ ret.result = "b"
    /\ ret.key \in DOMAIN keyValue

\* C2: when the call that resolved last is hset(h, f, v) and hget(h, f)
\* follows, hget resolves with v.
C2_HsetThenHget ==
    [][\A h \in Keys, key \in Fields :
          (ret.op = "hset" /\ ret.key = h /\ ret.field = key /\ hget(h, key))
             => ret'.result = ret.values[1]
      ]_vars

\* C3: rpush(k, v1..vn) leaves lrange(k, 0, -1) equal to the prior contents
\* followed by v1..vn and resolves with the prior length plus n.
C3_RpushAppends ==
    [][rpush(ret'.key, ret'.values) =>
          LET key == ret'.key
              values == ret'.values
              prior == IF key \in DOMAIN list THEN list[key] ELSE <<>>
          IN  /\ lrangeResult(list', key, 0, -1) = prior \o values
              /\ ret'.length = Len(prior) + Len(values)
      ]_vars

C3_Witness ==
    /\ ret.op = "rpush"
    /\ ret.values = <<"a", "b">>
    /\ ret.length = 3
    /\ list[ret.key] = <<"b", "a", "b">>

\* C4: lpush(k, v1..vn) leaves lrange(k, 0, -1) equal to v1..vn followed by
\* the prior contents, v1 at index 0, and resolves with the prior length
\* plus n.
C4_LpushPrependsBlock ==
    [][lpush(ret'.key, ret'.values) =>
          LET key == ret'.key
              values == ret'.values
              prior == IF key \in DOMAIN list THEN list[key] ELSE <<>>
          IN  /\ lrangeResult(list', key, 0, -1) = values \o prior
              /\ (values # <<>> => list'[key][1] = values[1])
              /\ ret'.length = Len(prior) + Len(values)
      ]_vars

C4_Witness ==
    /\ ret.op = "lpush"
    /\ ret.values = <<"a", "b">>
    /\ ret.length = 3
    /\ list[ret.key] = <<"a", "b", "a">>

\* the length of the list at key, 0 when there is none
LengthOf(key) == IF key \in DOMAIN list THEN Len(list[key]) ELSE 0

\* C5 as stated: for every negative stop, lrange(k, start, stop) resolves
\* with what lrange(k, start, length + stop) resolves with.
C5_NegativeStopAnyMagnitude ==
    [][(ret'.stop < 0 /\ lrange(ret'.key, ret'.start, ret'.stop))
          => ret'.items = lrangeResult(list, ret'.key, ret'.start,
                                       LengthOf(ret'.key) + ret'.stop)
      ]_vars

\* C5 amended: for every negative stop that is at least -length,
\* lrange(k, start, stop) resolves with what lrange(k, start, length + stop)
\* resolves with, and lrange resolves for every start and stop.
C5_NegativeStopWithinLength ==
    [][lrange(ret'.key, ret'.start, ret'.stop) =>
          /\ ret'.result = "array"
          /\ (ret'.stop < 0 /\ 0 - LengthOf(ret'.key) <= ret'.stop)
                => ret'.items = lrangeResult(list, ret'.key, ret'.start,
                                             LengthOf(ret'.key) + ret'.stop)
      ]_vars

C5_Witness ==
    /\ ret.op = "lrange"
    /\ ret.key \in DOMAIN list
    /\ ret.stop = 0 - Len(list[ret.key])
    /\ ret.start = 0
    /\ Len(list[ret.key]) = 3
    /\ ret.items = <<list[ret.key][1]>>

\* C6: for 0 <= start <= stop, lrange(k, start, stop) resolves with the
\* elements at indices start .. min(stop, n-1) in order, with the empty list
\* when start >= n, and with the empty list when k has no list record.
C6_InclusiveRange ==
    [][(/\ 0 <= ret'.start
         /\ ret'.start <= ret'.stop
         /\ lrange(ret'.key, ret'.start, ret'.stop)) =>
          LET key == ret'.key
              start == ret'.start
              stop == ret'.stop
          IN  IF key \notin DOMAIN list THEN ret'.items = <<>>
              ELSE LET n == Len(list[key])
                       last == IF stop < n - 1 THEN stop ELSE n - 1
                   IN  IF start >= n THEN ret'.items = <<>>
                       ELSE /\ Len(ret'.items) = last - start + 1
                            /\ \A i \in start..last :
                                  ret'.items[i - start + 1] = list[key][i + 1]
      ]_vars

C6_Witness ==
    /\ ret.op = "lrange"
    /\ ret.key \in DOMAIN list
    /\ list[ret.key] = <<"a", "b", "a">>
    /\ ret.start = 1
    /\ ret.stop = 1
    /\ ret.items = <<"b">>

\* C7: on a list of length n > 0, lpop resolves with the element at index 0
\* and rpop with the element at index n-1, and the stored list is the prior
\* list without that one element, the others in their order.
C7_PopRemovesOneEnd ==
    [][\A key \in Keys :
          /\ (key \in DOMAIN list /\ Len(list[key]) > 0 /\ lpop(key)) =>
                /\ ret'.result = list[key][1]
                /\ list[key] = <<ret'.result>> \o list'[key]
                /\ Len(list'[key]) = Len(list[key]) - 1
          /\ (key \in DOMAIN list /\ Len(list[key]) > 0 /\ rpop(key)) =>
                /\ ret'.result = list[key][Len(list[key])]
                /\ list[key] = list'[key] \o <<ret'.result>>
                /\ Len(list'[key]) = Len(list[key]) - 1
      ]_vars

C7_Witness ==
    /\ ret.op = "lpop"
    /\ ret.result = "a"
    /\ ret.key \in DOMAIN list
    /\ list[ret.key] = <<"b", "b">>

\* C8: lpop and rpop on a key whose list is absent or empty resolve with
\* null and leave the list store and the other stores as they were.
C8_PopOfNothing ==
    [][\A key \in Keys :
          ( /\ key \in DOMAIN list => list[key] = <<>>
            /\ lpop(key) \/ rpop(key) )
             => /\ ret'.result = Null
                /\ UNCHANGED <<keyValue, hash, list>>
      ]_vars

C8_Witness ==
    /\ ret.op = "rpop"
    /\ ret.result = Null
    /\ ret.key \in DOMAIN list
    /\ list[ret.key] = <<>>

\* C9: hget(h, f) resolves with null when h has no record or the record of
\* h has no field f of its own.  ("__proto__" is left to C2: hset never
\* stores it, so the record cannot tell whether hset was given it.)
C9_HgetUnsetIsNull ==
    [][\A h \in Keys, key \in Fields \ {"__proto__"} :
          ( /\ h \in DOMAIN hash => key \notin DOMAIN hash[h]
            /\ hget(h, key) )
             => ret'.result = Null
      ]_vars

\* C10: once del(k) has resolved, k is in none of the three stores: get(k)
\* resolves with undefined, hget(k, f) with null for every field f, and
\* lrange(k, 0, -1) with the empty list.
C10_DelRemovesEverywhere ==
    ret.op = "del" =>
       /\ ret.key \notin DOMAIN keyValue
       /\ ret.key \notin DOMAIN hash
       /\ ret.key \notin DOMAIN list
       /\ getResult(keyValue, ret.key) = Undefined
       /\ \A key \in Fields : hgetResult(hash, ret.key, key) = Null
       /\ lrangeResult(list, ret.key, 0, -1) = <<>>

C10_Witness ==
    /\ ret.op = "del"
    /\ ret.key = "k1"
    /\ "k2" \in DOMAIN keyValue
    /\ "k2" \in DOMAIN hash
    /\ "k2" \in DOMAIN list

\* key holds no value and has no Expiry Record
Gone(key) ==
    /\ key \notin DOMAIN keyValue
    /\ key \notin DOMAIN hash
    /\ key \notin DOMAIN list
    /\ recordsOf(expiry, key) = {}

\* the caller's last call was expire(key, seconds) with seconds 0 or 1, and
\* it makes no further call
LastCallExpired(key) ==
    /\ callerDone
    /\ ret.op = "expire"
    /\ ret.key = key
    /\ ret.start \in {0, 1}

\* C11: after expire(k, 0) or expire(k, 1), with no further caller action,
\* eventually k is in none of the three value stores and has no Expiry
\* Record.
C11_ExpireEventuallyDeletes ==
    \A key \in ExpiryKeys : LastCallExpired(key) ~> Gone(key)

C11_Witness ==
    /\ LastCallExpired("k1")
    /\ ret.start = 1
    /\ Gone("k1")
    /\ now >= ret.stop
    /\ events = <<1, 1>>
    /\ timers = {}
    /\ handlers = {}

\* key holds a value in one of the three value stores
HoldsValue(key) ==
    key \in DOMAIN keyValue \/ key \in DOMAIN hash \/ key \in DOMAIN list

\* C12: when k has no Expiry Record, ttl(k) resolves with -2 if k holds no
\* value in any value store and with -1 if it holds one.
C12_TtlWithoutRecord ==
    [][(ttl(ret'.key) /\ recordsOf(expiry, ret'.key) = {}) =>
          /\ ret'.result = "number"
          /\ ret'.length = IF HoldsValue(ret'.key) THEN -1 ELSE -2
      ]_vars

\* C13: when k has an Expiry Record with expireAt later than now, ttl(k)
\* resolves with the positive integer ceil((expireAt - now) / 1000); right
\* after expire(k, s) with s >= 1 that is between 1 and s.
C13_TtlOfLiveRecord ==
    [][\A r \in recordsOf(expiry, ret'.key) :
          (ttl(ret'.key) /\ r.expireAt > now) =>
             /\ ret'.result = "number"
             /\ ret'.length = ceilSeconds(r.expireAt - now)
             /\ ret'.length >= 1
             /\ (ret.op = "expire" /\ ret.key = ret'.key /\ ret.start >= 1)
                   => ret'.length <= ret.start
      ]_vars

\* C14: each registration raises its delete event once: its timer runs no
\* earlier than the expireAt the registration computed, no registration
\* raises a second event, and every registration comes to raise one.
C14_OneEventNotBeforeExpireAt ==
    /\ [][\A id \in Ids :
             /\ timerFires(id) =>
                   \A t \in timers : t.id = id => t.expireAt <= now
             /\ id <= Len(events') => events'[id] <= 1
         ]_vars
    /\ \A id \in Ids :
          (id <= Len(events)) ~> (id <= Len(events) /\ events[id] = 1)

\* a step of the handler that the timer of registration id started
HandlerStepOf(id) ==
    \/ onmessageDelKeyValue(id)
    \/ onmessageDelHash(id)
    \/ onmessageDelList(id)
    \/ onmessageRemoveExpiry(id)

\* the key of the handler of registration id has a later registration whose
\* expireAt is still to come
Superseded(id) ==
    \E h \in handlers, t \in timers :
       h.id = id /\ t.id > id /\ t.key = h.key /\ t.expireAt > now

\* C15: the handler started by the timer of a superseded registration does
\* not delete the key's value and does not remove the Expiry Record of the
\* registration that superseded it while the expireAt of that registration
\* is still to come.
C15_LastRegistrationWins ==
    [][\A id \in Ids :
          (Superseded(id) /\ HandlerStepOf(id))
             => UNCHANGED <<keyValue, hash, list, expiry>>
      ]_vars

\* C16: a get at or after the expireAt of k's Expiry Record does not
\* resolve with a value of k.
C16_ExpiredNeverRead ==
    [][\A r \in recordsOf(expiry, ret'.key) :
          (get(ret'.key) /\ r.expireAt <= now) => ret'.result = Undefined
      ]_vars

\* C17: the expiry store holds at most one Expiry Record per key, and the
\* commit of expire leaves the key with exactly the record of the new
\* expireAt.
C17_OneRecordPerKey ==
    [][/\ \A key \in Keys : Cardinality(recordsOf(expiry', key)) <= 1
       /\ expireSetExpiry =>
             recordsOf(expiry', call.key) =
                {[key |-> call.key, expireAt |-> call.expireAt]}
      ]_vars

C17_Witness ==
    /\ ret.op = "expire"
    /\ ret.start = 1
    /\ expiry = {[key |-> ret.key, expireAt |-> ret.stop]}
    /\ \E t \in timers : t.key = ret.key /\ t.expireAt < ret.stop
    /\ \E t \in timers : t.key = ret.key /\ t.expireAt = ret.stop

\* C18: no step of a del that the caller made changes the expiry store.
C18_DelKeepsExpiry ==
    [][((\E key \in Keys : del(key)) \/ delKeyValue \/ delHash \/ delList)
          => expiry' = expiry
      ]_vars

C18_Witness ==
    /\ ret.op = "del"
    /\ ~HoldsValue(ret.key)
    /\ \E r \in expiry : r.key = ret.key /\ r.expireAt > now

C20_DeleteOfAbsentIsNoOp ==
    [][/\ (delKeyValue /\ call.key \notin DOMAIN keyValue)
             => /\ UNCHANGED <<keyValue, hash, list, expiry>>
                /\ call'.pc = "hash"
       /\ (delHash /\ call.key \notin DOMAIN hash)
             => /\ UNCHANGED <<keyValue, hash, list, expiry>>
                /\ call'.pc = "list"
       /\ (delList /\ call.key \notin DOMAIN list)
             => /\ UNCHANGED <<keyValue, hash, list, expiry>>
                /\ ret'.op = "del"
       /\ \A id \in Ids, h \in handlers :
             ( /\ h.id = id
               /\ recordsOf(expiry, h.key) = {}
               /\ onmessageRemoveExpiry(id) )
                => UNCHANGED <<keyValue, hash, list, expiry>>
       /\ \A key \in Keys :
             /\ delete(delete(keyValue, key), key) = delete(keyValue, key)
             /\ delete(delete(hash, key), key) = delete(hash, key)
             /\ delete(delete(list, key), key) = delete(list, key)
             /\ deleteRecord(deleteRecord(expiry, key), key)
                   = deleteRecord(expiry, key)
      ]_vars

C20_Witness ==
    /\ ret.op = "del"
    /\ ~HoldsValue(ret.key)
    /\ events = <<1, 1>>
    /\ handlers = {}
    /\ expiry = {}

\* the handler of registration id is suspended at pc
HandlerIsAt(id, pc) == \E h \in handlers : h.id = id /\ h.pc = pc

\* C25: del runs one transaction per store in the order keyValue, hash,
\* list, by the caller and by the expiry handler alike: each step deletes
\* from its own store only and leaves the del at the next store, where
\* other operations run before it goes on.
C25_DelOneStoreAtATime ==
    [][/\ delKeyValue =>
             hash' = hash /\ list' = list /\ call'.pc = "hash"
       /\ delHash =>
             keyValue' = keyValue /\ list' = list /\ call'.pc = "list"
       /\ delList => keyValue' = keyValue /\ hash' = hash
       /\ \A id \in Ids :
             /\ onmessageDelKeyValue(id) =>
                   hash' = hash /\ list' = list /\ HandlerIsAt(id, "hash")'
             /\ onmessageDelHash(id) =>
                   /\ keyValue' = keyValue /\ list' = list
                   /\ HandlerIsAt(id, "list")'
             /\ onmessageDelList(id) => keyValue' = keyValue /\ hash' = hash
      ]_vars

C25_Witness ==
    /\ ret.op = "get"
    /\ ret.result = Undefined
    /\ ret.key \notin DOMAIN keyValue
    /\ ret.key \in DOMAIN hash
    /\ \E h \in handlers : h.key = ret.key /\ h.pc = "hash"

\* C27: hset(h, f, v) leaves every other field that h held with the value
\* hget returned for it before, and on an absent hash it creates a hash
\* that holds the field f and no other.
C27_HsetChangesOneField ==
    [][(\E value \in Values : hset(ret'.key, ret'.field, value)) =>
          /\ ret'.key \in DOMAIN hash =>
                \A g \in DOMAIN hash[ret'.key] \ {ret'.field} :
                   hgetResult(hash', ret'.key, g)
                      = hgetResult(hash, ret'.key, g)
          /\ ret'.key \notin DOMAIN hash =>
                DOMAIN hash'[ret'.key] = {ret'.field}
      ]_vars

\* the key of the handler of registration id
HandlerKeys(id) == {h.key : h \in {g \in handlers : g.id = id}}

\* C28: a timer leaves the worker only by running, whatever the caller
\* does after the expire call; the handler it starts runs to its end, and
\* each of its del transactions leaves the key absent from its store,
\* whatever the store held and whatever the Expiry Record says.
C28_HandlerDeletesWhatever ==
    /\ [][/\ \A t \in timers : t \in timers' \/ timerFires(t.id)
          /\ \A id \in Ids :
                /\ timerFires(id) => HandlerIsAt(id, "keyValue")'
                /\ onmessageDelKeyValue(id) =>
                      \A key \in HandlerKeys(id) : key \notin DOMAIN keyValue'
                /\ onmessageDelHash(id) =>
                      \A key \in HandlerKeys(id) : key \notin DOMAIN hash'
                /\ onmessageDelList(id) =>
                      \A key \in HandlerKeys(id) : key \notin DOMAIN list'
         ]_vars
    /\ (handlers # {}) ~> (handlers = {})

C28_Witness ==
    /\ ret.op = "set"
    /\ ret.key \notin DOMAIN keyValue
    /\ events = <<1>>
    /\ timers = {}
    /\ handlers = {}

\* C29: once every timer has run and every handler has ended, the expiry
\* store holds no record.
C29_NoRecordLeftBehind ==
    (timers = {} /\ handlers = {}) => expiry = {}

C29_Witness ==
    /\ ret.op = "set"
    /\ Len(events) = 2
    /\ events[1] = 1 /\ events[2] = 1
    /\ timers = {}
    /\ handlers = {}
    /\ expiry = {}
    /\ HoldsValue(ret.key)

\* the records of the keys other than key
OtherKeys(store, key) == [k \in DOMAIN store \ {key} |-> store[k]]

\* C26: set, hset, lpush, rpush, lpop and rpop on key k change at most the
\* record of k in their own store: the other two value stores, the records
\* of the other keys and the expiry store stay as they were.
C26_WritesTouchOneRecord ==
    [][/\ (\E value \in Values : set(ret'.key, value)) =>
             /\ hash' = hash /\ list' = list /\ expiry' = expiry
             /\ OtherKeys(keyValue', ret'.key) = OtherKeys(keyValue, ret'.key)
       /\ (\E value \in Values : hset(ret'.key, ret'.field, value)) =>
             /\ keyValue' = keyValue /\ list' = list /\ expiry' = expiry
             /\ OtherKeys(hash', ret'.key) = OtherKeys(hash, ret'.key)
       /\ ( \/ lpush(ret'.key, ret'.values)
            \/ rpush(ret'.key, ret'.values)
            \/ lpop(ret'.key)
            \/ rpop(ret'.key) ) =>
             /\ keyValue' = keyValue /\ hash' = hash /\ expiry' = expiry
             /\ OtherKeys(list', ret'.key) = OtherKeys(list, ret'.key)
      ]_vars

C26_Witness ==
    /\ ret.op = "set"
    /\ ret.key \in DOMAIN keyValue
    /\ ret.key \in DOMAIN hash
    /\ \E r \in expiry : r.key = ret.key /\ r.expireAt > now
    /\ \E k \in Keys \ {ret.key} : k \in DOMAIN list /\ k \in DOMAIN keyValue

\* C21: a timer is handed to the worker only in the step that has
\* committed the Expiry Record of its key and expireAt, and when the
\* transaction of _setExpiry fails, expire rejects and registers no timer.
C21_PersistThenSchedule ==
    [][/\ \A t \in timers' \ timers :
             [key |-> t.key, expireAt |-> t.expireAt] \in expiry'
       /\ (expireSetExpiryError \/ expireSetExpiryAborts) =>
             /\ ret'.op = "expire"
             /\ ret'.result = Rejected
             /\ call' = Idle
             /\ timers' = timers
             /\ events' = events
      ]_vars

\* C23: when the transaction of an operation fails, by a request error or
\* by an abort, the operation's promise is rejected, the caller is free
\* again, and the stores are as the failed transaction found them.
C23_FailureRejects ==
    [][( \/ \E key \in Keys, value \in Values :
               setError(key, value) \/ setAborts(key, value)
         \/ \E key \in Keys, values \in SeqsUpTo(Values, 1) :
               rpushError(key, values) \/ rpushAborts(key, values)
         \/ delError
         \/ delAborts
         \/ expireSetExpiryError
         \/ expireSetExpiryAborts ) =>
          /\ ret'.result = Rejected
          /\ call' = Idle
          /\ UNCHANGED <<keyValue, hash, list, expiry>>
      ]_vars

\* C24: when one of del's three transactions fails, del rejects and goes
\* no further: the stores it has deleted from stay without the key and the
\* stores still to come are as they were.
C24_DelFailsPartway ==
    [][(delError \/ delAborts) =>
          /\ ret'.op = "del"
          /\ ret'.result = Rejected
          /\ call' = Idle
          /\ UNCHANGED <<keyValue, hash, list, expiry>>
          /\ call.pc \in {"hash", "list"} => call.key \notin DOMAIN keyValue'
          /\ call.pc = "list" => call.key \notin DOMAIN hash'
      ]_vars

\* transaction tx is about to write a record computed from a read that
\* the store no longer matches: the update made since is lost
Stale(tx) == tx.pc = "put" /\ readBy(tx) # tx

AnyStale == \E i \in 1..Len(transactions) : Stale(transactions[i])

\* a stale write is at most one, two, ... steps away
StaleWithin1 == AnyStale \/ ENABLED (NextConcurrent /\ AnyStale')

StaleWithin2 == StaleWithin1 \/ ENABLED (NextConcurrent /\ StaleWithin1')

StaleWithin3 == StaleWithin2 \/ ENABLED (NextConcurrent /\ StaleWithin2')

StaleWithin4 == StaleWithin3 \/ ENABLED (NextConcurrent /\ StaleWithin3')

StaleWithin5 == StaleWithin4 \/ ENABLED (NextConcurrent /\ StaleWithin4')

\* C22: an interleaving of two concurrent calls on one key (two calls, the
\* read of each, the write of one) reaches a write that loses the update of
\* the other call.
C22_LostUpdateReachable == Init => StaleWithin5

\* C22 as amended: no transaction writes a record computed from a read that
\* another call has written over since, so no update is lost.
C22_NoLostUpdate ==
    \A i \in 1..Len(transactions) : ~Stale(transactions[i])

C22_Witness ==
    /\ Len(transactions) = 1
    /\ ret.op = "hset"
    /\ transactions[1].op = "hset"
    /\ transactions[1].behind = 1
    /\ transactions[1].pc = "put"
    /\ transactions[1].field # ret.field
    /\ ret.field \in DOMAIN transactions[1].hashObj

====
